---- MODULE Spec2Model ----
(***************************************************************************)
(* The tree-walking evaluator of kalker (src/src/interpreter.rs): the      *)
(* evaluation Context, Context::interpret, eval_stmt and eval_expr with    *)
(* all of its cases.                                                       *)
(*                                                                         *)
(* Numbers.  The interpreter computes with f64.  The model computes with   *)
(* exact rationals <<n, d>> (d > 0, lowest terms), extended by the three   *)
(* non-finite values of IEEE arithmetic: <<1, 0>> (inf), <<-1, 0>> (-inf)  *)
(* and <<0, 0>> (NaN).  Rounding and the sign of zero are not modelled.    *)
(*                                                                         *)
(* Text.  A numeric literal is a sequence of one-character strings, so     *)
(* that parsing it is a computation on its characters.                     *)
(***************************************************************************)
EXTENDS Integers, Sequences, FiniteSets, TLC

\* ------------------------------------------------------------------ bounds

\* Longest statement sequence handed to interpret.
MaxStmts == 3

\* Capacity of the call stack, in nested eval_expr frames.  A deeper
\* recursion is the stack exhaustion that aborts the process.
MaxDepth == 12

\* ------------------------------------------------------------------ f64

AbsInt(n) == IF n < 0 THEN -n ELSE n

SignInt(n) == IF n < 0 THEN -1 ELSE IF n > 0 THEN 1 ELSE 0

RECURSIVE Gcd(_, _)
Gcd(a, b) == IF b = 0 THEN a ELSE Gcd(b, a % b)

\* The value n/d in canonical form.
Norm(n, d) ==
    IF d = 0 THEN <<SignInt(n), 0>>
    ELSE LET g == Gcd(AbsInt(n), AbsInt(d))
             s == IF d < 0 THEN -1 ELSE 1
         IN  <<(s * n) \div g, (s * d) \div g>>

NaN == <<0, 0>>

IsNaN(x) == x = NaN

IsInf(x) == x[2] = 0 /\ x[1] # 0

Zero == <<0, 1>>

Neg(x) == <<-x[1], x[2]>>

\* left + right
FAdd(x, y) ==
    IF IsNaN(x) \/ IsNaN(y) THEN NaN
    ELSE IF IsInf(x) /\ IsInf(y) THEN (IF x = y THEN x ELSE NaN)
    ELSE IF IsInf(x) THEN x
    ELSE IF IsInf(y) THEN y
    ELSE Norm(x[1] * y[2] + y[1] * x[2], x[2] * y[2])

\* left - right
FSub(x, y) == FAdd(x, Neg(y))

\* left * right
FMul(x, y) ==
    IF IsNaN(x) \/ IsNaN(y) THEN NaN
    ELSE IF IsInf(x) \/ IsInf(y)
         THEN <<SignInt(x[1]) * SignInt(y[1]), 0>>
    ELSE Norm(x[1] * y[1], x[2] * y[2])

\* left / right: x/0 is an infinity (NaN for 0/0), x/inf is 0.
FDiv(x, y) ==
    IF IsNaN(x) \/ IsNaN(y) THEN NaN
    ELSE IF IsInf(y) THEN (IF IsInf(x) THEN NaN ELSE Zero)
    ELSE IF IsInf(x) THEN <<x[1] * (IF y[1] < 0 THEN -1 ELSE 1), 0>>
    ELSE Norm(x[1] * y[2], x[2] * y[1])

RECURSIVE PowNat(_, _)
PowNat(x, k) == IF k = 0 THEN <<1, 1>> ELSE FMul(x, PowNat(x, k - 1))

\* left.powf(right).  Exact for an integral exponent; a fractional
\* exponent has no rational value and is outside the modelled numbers (no
\* input of the model produces one), it is given as NaN.
FPow(x, y) ==
    IF y = Zero THEN <<1, 1>>
    ELSE IF x = <<1, 1>> THEN <<1, 1>>
    ELSE IF IsNaN(x) \/ IsNaN(y) THEN NaN
    ELSE IF IsInf(y) \/ y[2] # 1 THEN NaN
    ELSE IF y[1] > 0 THEN PowNat(x, y[1])
    ELSE FDiv(<<1, 1>>, PowNat(x, -y[1]))

\* core::f64::consts::PI, as the rational 355/113.
Pi == <<355, 113>>

\* f64::to_radians: self * (PI / 180)
ToRadians(x) == FMul(x, FDiv(Pi, <<180, 1>>))

\* f64::to_degrees: self * (180 / PI)
ToDegrees(x) == FMul(x, FDiv(<<180, 1>>, Pi))

\* ------------------------------------------------------------------ text

Digits == {"0", "1", "2", "3", "4", "5", "6", "7", "8", "9"}

DigitVal(c) ==
    CASE c = "0" -> 0 [] c = "1" -> 1 [] c = "2" -> 2 [] c = "3" -> 3
      [] c = "4" -> 4 [] c = "5" -> 5 [] c = "6" -> 6 [] c = "7" -> 7
      [] c = "8" -> 8 [] c = "9" -> 9

RECURSIVE DigitsVal(_)
DigitsVal(s) ==
    IF s = <<>> THEN 0
    ELSE 10 * DigitsVal(SubSeq(s, 1, Len(s) - 1)) + DigitVal(s[Len(s)])

RECURSIVE Pow10(_)
Pow10(k) == IF k = 0 THEN 1 ELSE 10 * Pow10(k - 1)

\* str::parse::<f64> on the decimal texts "ddd", "ddd.ddd", "ddd." and
\* ".ddd" with an optional sign; any other character, an empty text and a
\* text without a digit do not parse.  (Exponents and the words inf and
\* nan, which Rust also accepts, are not among the model's texts.)
ParseF64(text) ==
    LET signed == text # <<>> /\ text[1] \in {"-", "+"}
        body   == IF signed THEN SubSeq(text, 2, Len(text)) ELSE text
        dots   == {i \in 1..Len(body) : body[i] = "."}
        dot    == IF dots = {} THEN Len(body) + 1 ELSE CHOOSE i \in dots : TRUE
        int    == SubSeq(body, 1, dot - 1)
        frac   == SubSeq(body, dot + 1, Len(body))
        valid  == /\ Cardinality(dots) <= 1
                  /\ \A i \in 1..Len(body) : body[i] \in Digits \cup {"."}
                  /\ Len(int) + Len(frac) > 0
        mag    == Norm(DigitsVal(int) * Pow10(Len(frac)) + DigitsVal(frac),
                       Pow10(Len(frac)))
    IN  IF ~valid THEN [ok |-> FALSE]
        ELSE [ok |-> TRUE,
              v |-> IF signed /\ text[1] = "-" THEN Neg(mag) ELSE mag]

\* ------------------------------------------------------------------ ast

\* ast::Stmt
VarDecl(identifier, expr) ==
    [k |-> "VarDecl", id |-> identifier, expr |-> expr]

FnDecl(identifier, arguments, fn_body) ==
    [k |-> "FnDecl", id |-> identifier, arguments |-> arguments,
     fn_body |-> fn_body]

ExprStmt(expr) == [k |-> "Expr", expr |-> expr]

\* ast::Expr
Binary(left, op, right) ==
    [k |-> "Binary", left |-> left, op |-> op, right |-> right]

Unary(op, expr) == [k |-> "Unary", op |-> op, expr |-> expr]

UnitExpr(expr, kind) == [k |-> "Unit", expr |-> expr, kind |-> kind]

Var(identifier) == [k |-> "Var", id |-> identifier]

Literal(value) == [k |-> "Literal", value |-> value]

Group(expr) == [k |-> "Group", expr |-> expr]

FnCall(identifier, expressions) ==
    [k |-> "FnCall", id |-> identifier, expressions |-> expressions]

\* ast::Unit
Units == {"Degrees", "Radians"}

\* ------------------------------------------------------------------ results

\* Result<f64, String>: Ok(v) or Err(e).  The error strings are kept as
\* records of the format's name and its arguments.
Ok(v) == [t |-> "Ok", v |-> v]

Err(e) == [t |-> "Err", e |-> e]

\* Not a Result: the call stack is exhausted and the process aborts.
StackOverflow == [t |-> "StackOverflow"]

UndefinedVariable(identifier) ==
    [msg |-> "Undefined variable: '{}'.", id |-> identifier]

InvalidLiteral(value) ==
    [msg |-> "Invalid number literal: '{}'.", value |-> value]

ArgumentCount(expected, identifier, found) ==
    [msg |-> "Expected {} arguments in function '{}' but found {}.",
     expected |-> expected, id |-> identifier, found |-> found]

UndefinedFunction(identifier) ==
    [msg |-> "Undefined function: '{}'.", id |-> identifier]

InvalidUnit == [msg |-> "Invalid unit."]

\* ------------------------------------------------------------------ collaborators

\* lexer::TokenKind::to_unit: the unit a token names, or an error.
ToUnit(kind) ==
    CASE kind = "Deg" -> Ok("Degrees")
      [] kind = "Rad" -> Ok("Radians")
      [] OTHER -> Err(InvalidUnit)

\* ast::compare_enums: the two values are the same variant.
CompareEnums(a, b) == a = b

\* prelude constants: name -> the constant's text.
PreludeConstants == [pi |-> <<"3", ".", "1", "4">>]

\* prelude::call_unary_func: Some(result) for a unary builtin, else None.
CallUnaryFunc(identifier, x, angle_unit) ==
    CASE identifier = "abs" ->
             [some |-> TRUE, v |-> <<AbsInt(x[1]), x[2]>>]
      [] OTHER -> [some |-> FALSE]

\* x < y on the extended rationals (false when either is NaN).
FLess(x, y) ==
    IF IsNaN(x) \/ IsNaN(y) THEN FALSE
    ELSE IF IsInf(x) \/ IsInf(y)
         THEN (IF x = y THEN FALSE
               ELSE IF IsInf(x) THEN x[1] < 0 ELSE y[1] > 0)
    ELSE x[1] * y[2] < y[1] * x[2]

\* prelude::call_binary_func: Some(result) for a binary builtin, else None.
CallBinaryFunc(identifier, x, y, angle_unit) ==
    CASE identifier = "max" ->
             [some |-> TRUE, v |-> IF IsNaN(x) THEN y ELSE IF FLess(x, y) THEN y ELSE x]
      [] identifier = "min" ->
             [some |-> TRUE, v |-> IF IsNaN(x) THEN y ELSE IF FLess(y, x) THEN y ELSE x]
      [] OTHER -> [some |-> FALSE]

\* The key a function declaration is stored under: format!("{}()", identifier).
FnKey(identifier) == identifier \o "()"

\* SymbolTable::insert: the entry under key is replaced.  The log records
\* every access to the table, in order.
Insert(m, key, stmt) ==
    [m EXCEPT !.symbol_table =
                  [x \in (DOMAIN m.symbol_table) \cup {key} |->
                      IF x = key THEN stmt ELSE m.symbol_table[x]],
              !.log = Append(m.log, <<"insert", key>>)]

\* SymbolTable::get(key).cloned()
Get(m, key) ==
    IF key \in DOMAIN m.symbol_table
    THEN [some |-> TRUE, stmt |-> m.symbol_table[key]]
    ELSE [some |-> FALSE]

Got(m, key) == [m EXCEPT !.log = Append(m.log, <<"get", key>>)]

\* ------------------------------------------------------------------ evaluation

\* An evaluation yields the result and the context as the evaluation left
\* it.  m is the Context (symbol_table, angle_unit) with the access log;
\* d is the number of eval_expr frames already on the call stack.
Done(res, m) == [res |-> res, m |-> m]

IsOk(r) == r.res.t = "Ok"

RECURSIVE EvalStmt(_, _, _)
RECURSIVE EvalExpr(_, _, _)
RECURSIVE EvalBinaryExpr(_, _, _, _, _)
RECURSIVE EvalUnaryExpr(_, _, _)
RECURSIVE EvalUnitExpr(_, _, _, _)
RECURSIVE EvalVarExpr(_, _, _)
RECURSIVE EvalGroupExpr(_, _, _)
RECURSIVE EvalFnCallExpr(_, _, _, _)
RECURSIVE BindArguments(_, _, _, _, _)

\* eval_var_decl_stmt that keeps an entry the name already has.
KeepFirstVarDeclStmt(m, stmt, identifier) ==
    IF identifier \in DOMAIN m.symbol_table THEN Done(Ok(Zero), m)
    ELSE Done(Ok(Zero), Insert(m, identifier, stmt))

EvalVarDeclStmt(m, stmt, identifier) ==
    Done(Ok(Zero), Insert(m, identifier, stmt))

EvalFnDeclStmt(m) == Done(Ok(Zero), m)

EvalExprStmt(m, expr, d) == EvalExpr(m, expr, d)

EvalStmt(m, stmt, d) ==
    CASE stmt.k = "VarDecl" -> EvalVarDeclStmt(m, stmt, stmt.id)
      [] stmt.k = "FnDecl" -> EvalFnDeclStmt(m)
      [] stmt.k = "Expr" -> EvalExprStmt(m, stmt.expr, d)

EvalLiteralExpr(m, value) ==
    LET parsed == ParseF64(value)
    IN  IF parsed.ok THEN Done(Ok(parsed.v), m)
        ELSE Done(Err(InvalidLiteral(value)), m)

EvalExpr(m, expr, d) ==
    IF d >= MaxDepth THEN Done(StackOverflow, m)
    ELSE CASE expr.k = "Binary" ->
                  EvalBinaryExpr(m, expr.left, expr.op, expr.right, d + 1)
           [] expr.k = "Unary" -> EvalUnaryExpr(m, expr.expr, d + 1)
           [] expr.k = "Unit" -> EvalUnitExpr(m, expr.expr, expr.kind, d + 1)
           [] expr.k = "Var" -> EvalVarExpr(m, expr.id, d + 1)
           [] expr.k = "Literal" -> EvalLiteralExpr(m, expr.value)
           [] expr.k = "Group" -> EvalGroupExpr(m, expr.expr, d + 1)
           [] expr.k = "FnCall" ->
                  EvalFnCallExpr(m, expr.id, expr.expressions, d + 1)

BinaryOp(op, left, right) ==
    CASE op = "Plus" -> FAdd(left, right)
      [] op = "Minus" -> FSub(left, right)
      [] op = "Star" -> FMul(left, right)
      [] op = "Slash" -> FDiv(left, right)
      [] op = "Power" -> FPow(left, right)
      [] OTHER -> Zero

EvalBinaryExpr(m, left, op, right, d) ==
    LET l == EvalExpr(m, left, d)
        r == EvalExpr(l.m, right, d)
    IN  IF ~IsOk(l) THEN l
        ELSE IF ~IsOk(r) THEN r
        ELSE Done(Ok(BinaryOp(op, l.res.v, r.res.v)), r.m)

EvalUnaryExpr(m, expr, d) == EvalExpr(m, expr, d)

\* eval_unit_expr without the early return for the context's own unit.
AlwaysConvertUnitExpr(m, expr, kind, d) ==
    LET x == EvalExpr(m, expr, d)
        unit == ToUnit(kind)
    IN  IF x.res = StackOverflow THEN x
        ELSE IF unit.t = "Err" THEN Done(unit, x.m)
        ELSE IF ~IsOk(x) THEN x
        ELSE IF unit.v = "Degrees" THEN Done(Ok(ToRadians(x.res.v)), x.m)
        ELSE Done(Ok(ToDegrees(x.res.v)), x.m)

EvalUnitExpr(m, expr, kind, d) ==
    LET x == EvalExpr(m, expr, d)
        unit == ToUnit(kind)
    IN  IF x.res = StackOverflow THEN x
        ELSE IF unit.t = "Err" THEN Done(unit, x.m)
        ELSE IF CompareEnums(x.m.angle_unit, unit.v) THEN x
        ELSE IF ~IsOk(x) THEN x
        ELSE IF unit.v = "Degrees" THEN Done(Ok(ToRadians(x.res.v)), x.m)
        ELSE Done(Ok(ToDegrees(x.res.v)), x.m)

EvalVarExpr(m, identifier, d) ==
    IF identifier \in DOMAIN PreludeConstants
    THEN EvalExpr(m, Literal(PreludeConstants[identifier]), d)
    ELSE LET var_decl == Get(m, identifier)
             m1 == Got(m, identifier)
         IN  IF var_decl.some /\ var_decl.stmt.k = "VarDecl"
             THEN EvalExpr(m1, var_decl.stmt.expr, d)
             ELSE Done(Err(UndefinedVariable(identifier)), m1)

EvalGroupExpr(m, expr, d) == EvalExpr(m, expr, d)

\* The loop of eval_fn_call_expr that declares argument i, i+1, ... as
\* variables; it stops at the first declaration that fails.
BindArguments(m, arguments, expressions, i, d) ==
    IF i > Len(arguments) THEN Done(Ok(Zero), m)
    ELSE LET r == EvalStmt(m, VarDecl(arguments[i], expressions[i]), d)
         IN  IF ~IsOk(r) THEN r
             ELSE BindArguments(r.m, arguments, expressions, i + 1, d)

\* The first half of eval_fn_call_expr: with one or two arguments they
\* are evaluated and the builtin of that arity is tried.  res is Ok(..)
\* with func the builtin's Option, or the failure of an argument.
PreludeFunc(m, identifier, expressions, d) ==
    IF Len(expressions) = 1
    THEN LET x == EvalExpr(m, expressions[1], d)
         IN  IF ~IsOk(x) THEN [res |-> x.res, m |-> x.m, func |-> [some |-> FALSE]]
             ELSE [res |-> x.res, m |-> x.m,
                   func |-> CallUnaryFunc(identifier, x.res.v, x.m.angle_unit)]
    ELSE IF Len(expressions) = 2
    THEN LET x == EvalExpr(m, expressions[1], d)
             y == EvalExpr(x.m, expressions[2], d)
         IN  IF ~IsOk(x) THEN [res |-> x.res, m |-> x.m, func |-> [some |-> FALSE]]
             ELSE IF ~IsOk(y) THEN [res |-> y.res, m |-> y.m, func |-> [some |-> FALSE]]
             ELSE [res |-> y.res, m |-> y.m,
                   func |-> CallBinaryFunc(identifier, x.res.v, y.res.v,
                                           y.m.angle_unit)]
    ELSE [res |-> Ok(Zero), m |-> m, func |-> [some |-> FALSE]]

\* The second half of eval_fn_call_expr with a count check that only
\* rejects too few arguments.
TooFewOnlyUserFn(m1, stmt_definition, identifier, expressions, d) ==
    IF stmt_definition.some /\ stmt_definition.stmt.k = "FnDecl"
    THEN LET arguments == stmt_definition.stmt.arguments
             fn_body == stmt_definition.stmt.fn_body
             b == BindArguments(m1, arguments, expressions, 1, d)
         IN  IF Len(arguments) > Len(expressions)
             THEN Done(Err(ArgumentCount(Len(arguments), identifier,
                                         Len(expressions))), m1)
             ELSE IF ~IsOk(b) THEN b
             ELSE EvalExpr(b.m, fn_body, d)
    ELSE Done(Err(UndefinedFunction(identifier)), m1)

\* The second half of eval_fn_call_expr with the parameters' earlier
\* entries put back when the body has been evaluated.
ScopedUserFn(m1, stmt_definition, identifier, expressions, d) ==
    IF stmt_definition.some /\ stmt_definition.stmt.k = "FnDecl"
    THEN LET arguments == stmt_definition.stmt.arguments
             fn_body == stmt_definition.stmt.fn_body
             b == BindArguments(m1, arguments, expressions, 1, d)
             r == EvalExpr(b.m, fn_body, d)
         IN  IF Len(arguments) # Len(expressions)
             THEN Done(Err(ArgumentCount(Len(arguments), identifier,
                                         Len(expressions))), m1)
             ELSE IF ~IsOk(b) THEN b
             ELSE Done(r.res,
                       [r.m EXCEPT !.symbol_table = m1.symbol_table])
    ELSE Done(Err(UndefinedFunction(identifier)), m1)

\* The second half of eval_fn_call_expr with the arguments declared
\* before the count is checked.
BindFirstUserFn(m1, stmt_definition, identifier, expressions, d) ==
    IF stmt_definition.some /\ stmt_definition.stmt.k = "FnDecl"
    THEN LET arguments == stmt_definition.stmt.arguments
             fn_body == stmt_definition.stmt.fn_body
             n == IF Len(arguments) < Len(expressions)
                  THEN Len(arguments) ELSE Len(expressions)
             b == BindArguments(m1, SubSeq(arguments, 1, n), expressions, 1, d)
         IN  IF ~IsOk(b) THEN b
             ELSE IF Len(arguments) # Len(expressions)
             THEN Done(Err(ArgumentCount(Len(arguments), identifier,
                                         Len(expressions))), b.m)
             ELSE EvalExpr(b.m, fn_body, d)
    ELSE Done(Err(UndefinedFunction(identifier)), m1)

\* The second half of eval_fn_call_expr: no builtin answered, so the
\* definition found under the function's key in m1 decides.
EvalUserFn(m1, stmt_definition, identifier, expressions, d) ==
    IF stmt_definition.some /\ stmt_definition.stmt.k = "FnDecl"
    THEN LET arguments == stmt_definition.stmt.arguments
             fn_body == stmt_definition.stmt.fn_body
             b == BindArguments(m1, arguments, expressions, 1, d)
         IN  IF Len(arguments) # Len(expressions)
             THEN Done(Err(ArgumentCount(Len(arguments), identifier,
                                         Len(expressions))), m1)
             ELSE IF ~IsOk(b) THEN b
             ELSE EvalExpr(b.m, fn_body, d)
    ELSE Done(Err(UndefinedFunction(identifier)), m1)

\* eval_fn_call_expr that asks the symbol table before the builtins.
UserFirstFnCallExpr(m, identifier, expressions, d) ==
    LET p == PreludeFunc(m, identifier, expressions, d)
        stmt_definition == Get(p.m, FnKey(identifier))
    IN  IF p.res.t # "Ok" THEN Done(p.res, p.m)
        ELSE IF stmt_definition.some
        THEN EvalUserFn(Got(p.m, FnKey(identifier)), stmt_definition,
                        identifier, expressions, d)
        ELSE IF p.func.some THEN Done(Ok(p.func.v), p.m)
        ELSE Done(Err(UndefinedFunction(identifier)), Got(p.m, FnKey(identifier)))

EvalFnCallExpr(m, identifier, expressions, d) ==
    LET p == PreludeFunc(m, identifier, expressions, d)
    IN  IF p.res.t # "Ok" THEN Done(p.res, p.m)
        ELSE IF p.func.some THEN Done(Ok(p.func.v), p.m)
        ELSE EvalUserFn(Got(p.m, FnKey(identifier)),
                        Get(p.m, FnKey(identifier)), identifier, expressions, d)

\* ------------------------------------------------------------------ inputs

L(text) == Literal(text)

One == L(<<"1">>)

Five == L(<<"5">>)

\* Statements about variables: redeclaration, a body that mentions
\* another variable, a body that mentions its own name, a name that is
\* also a prelude constant, an undeclared name, a malformed literal.
VarStmts ==
    { VarDecl("b", Five),
      VarDecl("b", L(<<"1", ".", "5">>)),
      VarDecl("b", Binary(Var("b"), "Plus", One)),
      VarDecl("c", Var("b")),
      VarDecl("pi", Five),
      ExprStmt(Var("b")),
      ExprStmt(Var("c")),
      ExprStmt(Var("pi")),
      ExprStmt(Var("y")),
      ExprStmt(L(<<"1", "x">>)) }

\* Statements about user functions: f with two parameters, g with a
\* repeated parameter name, calls with the declared and with other
\* argument counts, arguments that mention a parameter's name, that fail,
\* and that are themselves calls; r, which calls itself.
CallStmts ==
    { VarDecl("b", Five),
      FnDecl("f", <<"a", "b">>, Binary(Var("a"), "Minus", Var("b"))),
      FnDecl("g", <<"a", "a">>, Var("a")),
      ExprStmt(FnCall("f", <<Var("b"), One>>)),
      ExprStmt(FnCall("f", <<>>)),
      ExprStmt(FnCall("f", <<Var("y"), Var("y"), Var("y")>>)),
      ExprStmt(FnCall("f", <<Var("y")>>)),
      ExprStmt(FnCall("f", <<FnCall("f", <<One, Five>>)>>)),
      ExprStmt(FnCall("g", <<One, Five>>)),
      FnDecl("r", <<"a">>, FnCall("r", <<Var("a")>>)),
      ExprStmt(FnCall("r", <<One>>)) }

\* Statements about builtins: user functions named as the builtins max
\* (with the builtin's parameter count) and abs (with another), calls at
\* the builtin's arity and at another, a call of a name that is neither.
BuiltinStmts ==
    { VarDecl("b", Five),
      FnDecl("max", <<"a", "b">>, Binary(Var("a"), "Plus", Var("b"))),
      FnDecl("abs", <<"a", "b">>, Var("a")),
      ExprStmt(FnCall("max", <<Var("b"), One>>)),
      ExprStmt(FnCall("max", <<One>>)),
      ExprStmt(FnCall("max", <<Var("y"), One>>)),
      ExprStmt(FnCall("abs", <<L(<<"-", "5">>)>>)),
      ExprStmt(FnCall("h", <<One>>)) }

\* Statements about units and arithmetic.
UnitStmts ==
    { VarDecl("b", L(<<"9", "0">>)),
      ExprStmt(UnitExpr(Var("b"), "Deg")),
      ExprStmt(UnitExpr(Var("b"), "Rad")),
      ExprStmt(UnitExpr(Var("b"), "Plus")),
      ExprStmt(UnitExpr(Var("y"), "Deg")),
      ExprStmt(UnitExpr(UnitExpr(Five, "Deg"), "Rad")),
      ExprStmt(Binary(Group(Binary(Var("b"), "Slash", Five)), "Power",
                      Unary("Minus", L(<<"2">>)))),
      ExprStmt(Binary(Binary(One, "Star", Five), "Equals", One)) }

Suites == {VarStmts, CallStmts, BuiltinStmts, UnitStmts}

\* The statement sequences of at most n statements over the set U.
Programs(U, n) == UNION {[1..k -> U] : k \in 0..n}

\* ------------------------------------------------------------------ state

VARIABLES
    symbol_table,   \* the SymbolTable the Context borrows: key -> Stmt
    angle_unit,     \* Context.angle_unit
    statements,     \* the argument of interpret
    i,              \* the number of statements interpret has evaluated
    pc,             \* "idle", "loop", "returned" or "aborted"
    result,         \* what interpret returned
    hist            \* one record for each statement evaluated so far

vars == <<symbol_table, angle_unit, statements, i, pc, result, hist>>

\* Result<Option<f64>, String>
OkSome(v) == [t |-> "Ok", some |-> TRUE, v |-> v]

OkNone == [t |-> "Ok", some |-> FALSE]

Pending == [t |-> "Pending"]

\* A new SymbolTable and Context::new(angle_unit, symbol_table).
Init ==
    /\ symbol_table = [x \in {} |-> 0]
    /\ angle_unit \in Units
    /\ statements = <<>>
    /\ i = 0
    /\ pc = "idle"
    /\ result = Pending
    /\ hist = <<>>

\* The parser has added each FnDecl of the input to the symbol table
\* before interpret runs, under the function's key.
RECURSIVE Registered(_, _, _)
Registered(table, stmts, n) ==
    IF n > Len(stmts) THEN table
    ELSE Registered(
             IF stmts[n].k = "FnDecl"
             THEN [x \in (DOMAIN table) \cup {FnKey(stmts[n].id)} |->
                      IF x = FnKey(stmts[n].id) THEN stmts[n] ELSE table[x]]
             ELSE table,
             stmts, n + 1)

\* The host parses an input and calls interpret with its statements.
Parse ==
    /\ pc = "idle"
    /\ \E U \in Suites : \E stmts \in Programs(U, MaxStmts) :
          /\ statements' = stmts
          /\ symbol_table' = Registered(symbol_table, stmts, 1)
    /\ pc' = "loop"
    /\ UNCHANGED <<angle_unit, i, result, hist>>

\* interpret that returns the value of any expression statement.
ReturnsAnyExpr(stmts, n, value) ==
    IF stmts[n].k = "Expr"
    THEN [done |-> TRUE,
          result |-> IF value.t = "Ok" THEN OkSome(value.v) ELSE value]
    ELSE IF n = Len(stmts) THEN [done |-> TRUE, result |-> OkNone]
    ELSE [done |-> FALSE, result |-> Pending]

\* What interpret does with the value of statement n (counted from 1):
\* the last statement's value is returned if it is an expression statement,
\* after the last statement None is returned, otherwise the loop goes on.
Returns(stmts, n, value) ==
    IF n = Len(stmts) /\ stmts[n].k = "Expr"
    THEN [done |-> TRUE,
          result |-> IF value.t = "Ok" THEN OkSome(value.v) ELSE value]
    ELSE IF n = Len(stmts) THEN [done |-> TRUE, result |-> OkNone]
    ELSE [done |-> FALSE, result |-> Pending]

\* One iteration of the loop of interpret, or its return for an empty input.
Interpret ==
    /\ pc = "loop"
    /\ IF statements = <<>>
       THEN /\ pc' = "returned"
            /\ result' = OkNone
            /\ UNCHANGED <<symbol_table, angle_unit, i, hist>>
       ELSE LET stmt == statements[i + 1]
                m == [symbol_table |-> symbol_table, angle_unit |-> angle_unit,
                      log |-> <<>>]
                value == EvalStmt(m, stmt, 0)
                ret == Returns(statements, i + 1, value.res)
                h == [pre |-> symbol_table, unit |-> angle_unit,
                      res |-> value.res, post |-> value.m.symbol_table,
                      unit_post |-> value.m.angle_unit, log |-> value.m.log]
            IN  IF value.res = StackOverflow
                THEN /\ pc' = "aborted"
                     /\ hist' = Append(hist, h)
                     /\ UNCHANGED <<symbol_table, angle_unit, i, result>>
                ELSE /\ symbol_table' = value.m.symbol_table
                     /\ angle_unit' = value.m.angle_unit
                     /\ i' = i + 1
                     /\ hist' = Append(hist, h)
                     /\ pc' = IF ret.done THEN "returned" ELSE "loop"
                     /\ result' = ret.result
    /\ UNCHANGED statements

Next ==
    \/ Parse
    \/ Interpret

Spec == Init /\ [][Next]_vars

\* ------------------------------------------------------------------ claims

\* The positions of the statements evaluated so far.
Evaluated == 1..Len(hist)

\* The Context in which statement k was evaluated.
CtxAt(k) ==
    [symbol_table |-> hist[k].pre, angle_unit |-> hist[k].unit, log |-> <<>>]

\* C1: interpret fails fast.  If the expression statement at position k
\* failed, interpret has returned that error, no later statement has been
\* evaluated and the store is as that statement left it.
C1_FailFast ==
    \A k \in Evaluated :
        (statements[k].k = "Expr" /\ hist[k].res.t = "Err")
            => /\ pc = "returned"
               /\ result = hist[k].res
               /\ Len(hist) = k
               /\ symbol_table = hist[k].post

\* C2: when no evaluation failed, interpret returns Some(v) exactly when
\* the last statement is an expression statement, v being the value of
\* that expression in the store the earlier statements left; it returns
\* None for an empty input and for a final declaration.
C2_LastValue ==
    (pc = "returned" /\ \A k \in Evaluated : hist[k].res.t = "Ok")
        => LET n == Len(statements)
           IN  /\ Len(hist) = n
               /\ IF n > 0 /\ statements[n].k = "Expr"
                  THEN LET v == EvalExpr(CtxAt(n), statements[n].expr, 0)
                       IN  v.res.t = "Ok" /\ result = OkSome(v.res.v)
                  ELSE result = OkNone

\* C2 happens: interpret returned the value of its last statement, an
\* earlier expression statement had another value.
C2_Witness ==
    /\ pc = "returned"
    /\ result.t = "Ok" /\ result.some
    /\ \A k \in Evaluated : hist[k].res.t = "Ok"
    /\ \E k \in Evaluated :
          /\ k < Len(statements)
          /\ statements[k].k = "Expr"
          /\ hist[k].res.v # result.v

\* The body of the most recent declaration of x among the first n
\* statements (n > 0 statements, all of them variable declarations).
LatestBody(x, n) ==
    statements[CHOOSE j \in 1..n :
                   /\ statements[j].id = x
                   /\ \A l \in (j + 1)..n : statements[l].id # x].expr

\* Statement k references the variable x after a sequence of variable
\* declarations, one of which declares x.
RefersAfterDecls(k) ==
    /\ k \in Evaluated
    /\ statements[k].k = "Expr"
    /\ statements[k].expr.k = "Var"
    /\ \A j \in 1..(k - 1) : statements[j].k = "VarDecl"
    /\ \E j \in 1..(k - 1) : statements[j].id = statements[k].expr.id

\* The outcome of evaluating, when statement k is evaluated, the body of
\* the most recent declaration of the variable that statement k names.
LatestValue(k) ==
    EvalExpr(CtxAt(k), LatestBody(statements[k].expr.id, k - 1), 1).res

\* C4 as stated: a reference to x after declarations of x has the value
\* of the body of the most recent declaration of x, for every name x.
C4_AnyName ==
    \A k \in Evaluated : RefersAfterDecls(k) => hist[k].res = LatestValue(k)

\* C4: a reference to x after declarations of x has the value that the
\* body of the most recent declaration of x has at the time of the
\* reference, for every name x that is not a prelude constant.
C4_LastWrite ==
    \A k \in Evaluated :
        (RefersAfterDecls(k)
            /\ statements[k].expr.id \notin DOMAIN PreludeConstants)
            => hist[k].res = LatestValue(k)

\* C4 happens: x was declared twice with bodies of different values and
\* the reference returned the value of the second.
C4_Witness ==
    \E k \in Evaluated :
        /\ RefersAfterDecls(k)
        /\ statements[k].expr.id \notin DOMAIN PreludeConstants
        /\ k = 3
        /\ statements[1].id = statements[3].expr.id
        /\ statements[2].id = statements[3].expr.id
        /\ hist[k].res.t = "Ok"
        /\ hist[k].res = EvalExpr(CtxAt(2), statements[2].expr, 1).res
        /\ hist[k].res # EvalExpr(CtxAt(1), statements[1].expr, 1).res

\* Statement k is a unit annotation with a valid unit whose inner
\* expression has a value.
Annotates(k) ==
    /\ k \in Evaluated
    /\ statements[k].k = "Expr"
    /\ statements[k].expr.k = "Unit"
    /\ ToUnit(statements[k].expr.kind).t = "Ok"
    /\ EvalExpr(CtxAt(k), statements[k].expr.expr, 1).res.t = "Ok"

\* C7: an annotation with the context's unit returns the inner value, a
\* Degrees annotation under Radians its conversion to radians, a Radians
\* annotation under Degrees its conversion to degrees; no evaluation
\* changes the context's angle unit.
C7_UnitConversion ==
    /\ \A k \in Evaluated : hist[k].unit_post = hist[k].unit
    /\ \A k \in Evaluated : hist[k].unit = angle_unit
    /\ \A k \in Evaluated :
          Annotates(k)
              => LET v == EvalExpr(CtxAt(k), statements[k].expr.expr, 1).res.v
                     unit == ToUnit(statements[k].expr.kind).v
                 IN  hist[k].res =
                         Ok(IF unit = hist[k].unit THEN v
                            ELSE IF unit = "Degrees" THEN ToRadians(v)
                            ELSE ToDegrees(v))

\* C7 happens: a Degrees annotation was evaluated under Radians, and its
\* value is not the inner value.
C7_Witness ==
    \E k \in Evaluated :
        /\ Annotates(k)
        /\ statements[k].expr.kind = "Deg"
        /\ hist[k].unit = "Radians"
        /\ hist[k].res.t = "Ok"
        /\ hist[k].res.v # EvalExpr(CtxAt(k), statements[k].expr.expr, 1).res.v

\* Statement k is a function call.
IsCall(k) ==
    /\ k \in Evaluated
    /\ statements[k].k = "Expr"
    /\ statements[k].expr.k = "FnCall"

CallId(k) == statements[k].expr.id

CallArgs(k) == statements[k].expr.expressions

\* The expressions j, j+1, ... of exprs evaluated one after the other from
\* m, up to the first that has no value: the values and the Context left.
RECURSIVE InOrder(_, _, _, _)
InOrder(m, exprs, j, vals) ==
    IF j > Len(exprs) THEN [ok |-> TRUE, vals |-> vals, m |-> m]
    ELSE LET r == EvalExpr(m, exprs[j], 1)
         IN  IF r.res.t = "Ok"
             THEN InOrder(r.m, exprs, j + 1, Append(vals, r.res.v))
             ELSE [ok |-> FALSE, vals |-> vals, m |-> r.m]

\* What the call of statement k evaluates before it resolves the name:
\* its arguments when there are one or two of them, else nothing.
ArgsFirst(k) ==
    IF Len(CallArgs(k)) \in {1, 2} THEN InOrder(CtxAt(k), CallArgs(k), 1, <<>>)
    ELSE [ok |-> TRUE, vals |-> <<>>, m |-> CtxAt(k)]

\* The builtin catalog's answer to the call of statement k.
BuiltinAt(k) ==
    LET a == ArgsFirst(k)
    IN  IF Len(CallArgs(k)) = 1
        THEN CallUnaryFunc(CallId(k), a.vals[1], hist[k].unit)
        ELSE IF Len(CallArgs(k)) = 2
        THEN CallBinaryFunc(CallId(k), a.vals[1], a.vals[2], hist[k].unit)
        ELSE [some |-> FALSE]

\* A user function is registered under the name that statement k calls.
IsRegistered(k) ==
    /\ FnKey(CallId(k)) \in DOMAIN hist[k].pre
    /\ hist[k].pre[FnKey(CallId(k))].k = "FnDecl"

Params(k) == hist[k].pre[FnKey(CallId(k))].arguments

Body(k) == hist[k].pre[FnKey(CallId(k))].fn_body

\* C5: a call with one or two arguments that have values, of a name the
\* builtin catalog recognizes at that arity, returns the builtin's result;
\* the table is accessed by the evaluation of the arguments only (no
\* lookup of the user function, no parameter bound).
C5_BuiltinFirst ==
    \A k \in Evaluated :
        (IsCall(k) /\ Len(CallArgs(k)) \in {1, 2}
            /\ ArgsFirst(k).ok /\ BuiltinAt(k).some)
            => /\ hist[k].res = Ok(BuiltinAt(k).v)
               /\ hist[k].log = ArgsFirst(k).m.log
               /\ hist[k].post = ArgsFirst(k).m.symbol_table
               /\ \A j \in 1..Len(hist[k].log) :
                     hist[k].log[j] # <<"get", FnKey(CallId(k))>>

\* C5 happens: a builtin answered although a user function of the same
\* name was registered.
C5_Witness ==
    \E k \in Evaluated :
        /\ IsCall(k) /\ Len(CallArgs(k)) \in {1, 2}
        /\ ArgsFirst(k).ok /\ BuiltinAt(k).some
        /\ IsRegistered(k)
        /\ hist[k].res.t = "Ok"

\* C6 as stated: a call of a registered user function with another
\* number of arguments fails with the argument-count error, whatever the
\* arguments are.
C6_AnyArguments ==
    \A k \in Evaluated :
        (IsCall(k) /\ IsRegistered(k) /\ Len(Params(k)) # Len(CallArgs(k)))
            => hist[k].res =
                   Err(ArgumentCount(Len(Params(k)), CallId(k),
                                     Len(CallArgs(k))))

\* The call of statement k reaches the symbol table: its arguments, if
\* they were evaluated first, have values and no builtin answered.
ReachesTable(k) ==
    /\ IsCall(k)
    /\ ArgsFirst(k).ok
    /\ ~BuiltinAt(k).some
    /\ IsRegistered(k)

\* C6: a call of a registered user function with another number of
\* arguments fails with the argument-count error naming the function, the
\* declared and the given count, provided that one or two arguments have
\* values and that the builtin catalog does not recognize the name at the
\* call's arity.
C6_ArgumentCount ==
    \A k \in Evaluated :
        (ReachesTable(k) /\ Len(Params(k)) # Len(CallArgs(k)))
            => hist[k].res =
                   Err(ArgumentCount(Len(Params(k)), CallId(k),
                                     Len(CallArgs(k))))

\* C6 happens: a call with three arguments that have no value failed with
\* the argument-count error of a function of two parameters.
C6_Witness ==
    \E k \in Evaluated :
        /\ ReachesTable(k)
        /\ Len(Params(k)) = 2 /\ Len(CallArgs(k)) = 3
        /\ EvalExpr(CtxAt(k), CallArgs(k)[1], 1).res.t = "Err"
        /\ hist[k].res = Err(ArgumentCount(2, CallId(k), 3))

\* C10 as stated: a call that fails its argument-count check leaves the
\* store as it was before the call.
C10_StoreAsBefore ==
    \A k \in Evaluated :
        (ReachesTable(k) /\ Len(Params(k)) # Len(CallArgs(k)))
            => hist[k].post = hist[k].pre

\* C10: a call that fails its argument-count check leaves the store as
\* the evaluation of its arguments left it (one or two arguments are
\* evaluated before the check), and as it was before the call when there
\* are no or more than two arguments.
C10_StoreAsArguments ==
    \A k \in Evaluated :
        (ReachesTable(k) /\ Len(Params(k)) # Len(CallArgs(k)))
            => /\ hist[k].post = ArgsFirst(k).m.symbol_table
               /\ Len(CallArgs(k)) \notin {1, 2}
                      => hist[k].post = hist[k].pre

\* C10 happens: calls failed the count check, one of them with a store
\* that holds a variable and is left as it was.
C10_Witness ==
    \E k \in Evaluated :
        /\ ReachesTable(k) /\ Len(Params(k)) # Len(CallArgs(k))
        /\ hist[k].res.t = "Err"
        /\ "b" \in DOMAIN hist[k].pre
        /\ hist[k].post = hist[k].pre

\* The call of statement k passes the argument-count check and returns.
Binds(k) ==
    /\ ReachesTable(k)
    /\ Len(Params(k)) = Len(CallArgs(k))
    /\ hist[k].res # StackOverflow

\* The store after the binding step of the call of statement k, when the
\* parameter name x is given the argument at position at[x].
BoundTable(k, at) ==
    LET T == ArgsFirst(k).m.symbol_table
        P == {Params(k)[j] : j \in 1..Len(Params(k))}
    IN  [x \in (DOMAIN T) \cup P |->
            IF x \in P THEN VarDecl(x, CallArgs(k)[at[x]]) ELSE T[x]]

\* The store that evaluating the body from the table T leaves.
AfterBody(k, T) ==
    EvalExpr([symbol_table |-> T, angle_unit |-> hist[k].unit, log |-> <<>>],
             Body(k), 1).m.symbol_table

FirstAt(k) ==
    [x \in {Params(k)[j] : j \in 1..Len(Params(k))} |->
        CHOOSE j \in 1..Len(Params(k)) :
            Params(k)[j] = x /\ \A l \in 1..(j - 1) : Params(k)[l] # x]

LastAt(k) ==
    [x \in {Params(k)[j] : j \in 1..Len(Params(k))} |->
        CHOOSE j \in 1..Len(Params(k)) :
            Params(k)[j] = x /\ \A l \in (j + 1)..Len(Params(k)) : Params(k)[l] # x]

\* C8 as stated: after the count check the store maps each parameter
\* name p_j to the declaration of p_j with body e_j, all other entries are
\* as before, and the store the call leaves is the one the body leaves
\* from there.
C8_EachParameter ==
    \A k \in Evaluated :
        Binds(k)
            => /\ \A j \in 1..Len(Params(k)) :
                     BoundTable(k, FirstAt(k))[Params(k)[j]]
                         = VarDecl(Params(k)[j], CallArgs(k)[j])
               /\ hist[k].post = AfterBody(k, BoundTable(k, FirstAt(k)))

\* C8: after the count check the store maps each parameter name to the
\* declaration whose body is the unevaluated argument at the name's last
\* position in the parameter list, all other entries are as before, and
\* the store the call leaves is the one the body leaves from there:
\* nothing is restored.
C8_Binding ==
    \A k \in Evaluated :
        Binds(k) => hist[k].post = AfterBody(k, BoundTable(k, LastAt(k)))

\* C8 happens: a call returned and left a parameter's name, which had an
\* entry before the call, bound to the call's argument.
C8_Witness ==
    \E k \in Evaluated :
        /\ Binds(k)
        /\ \E j \in 1..Len(Params(k)) :
              /\ Params(k)[j] \in DOMAIN hist[k].pre
              /\ hist[k].pre[Params(k)[j]] # VarDecl(Params(k)[j], CallArgs(k)[j])
              /\ hist[k].post[Params(k)[j]] = VarDecl(Params(k)[j], CallArgs(k)[j])

\* The value of expr when the parameter names stand for the values vals
\* (position by position) and every other expression has the value it has
\* in the Context m.
RECURSIVE ValueWith(_, _, _, _)
ValueWith(expr, params, vals, m) ==
    IF expr.k = "Var" /\ \E j \in 1..Len(params) : params[j] = expr.id
    THEN Ok(vals[CHOOSE j \in 1..Len(params) : params[j] = expr.id])
    ELSE IF expr.k = "Binary"
    THEN LET l == ValueWith(expr.left, params, vals, m)
             r == ValueWith(expr.right, params, vals, m)
         IN  IF l.t # "Ok" THEN l
             ELSE IF r.t # "Ok" THEN r
             ELSE Ok(BinaryOp(expr.op, l.v, r.v))
    ELSE IF expr.k \in {"Unary", "Group"}
    THEN ValueWith(expr.expr, params, vals, m)
    ELSE EvalExpr(m, expr, 1).res

\* C3: a call of a user function returns the value of the body with each
\* parameter standing for the value its argument has in the store at the
\* moment of the call.
C3_Positional ==
    \A k \in Evaluated :
        (/\ Binds(k)
         /\ \A j, l \in 1..Len(Params(k)) : Params(k)[j] = Params(k)[l] => j = l
         /\ \A j \in 1..Len(CallArgs(k)) :
               EvalExpr(CtxAt(k), CallArgs(k)[j], 1).res.t = "Ok")
            => hist[k].res =
                   ValueWith(Body(k), Params(k),
                             [j \in 1..Len(CallArgs(k)) |->
                                 EvalExpr(CtxAt(k), CallArgs(k)[j], 1).res.v],
                             CtxAt(k))

\* The names of the functions that expr calls.
RECURSIVE CalledIn(_)
CalledIn(expr) ==
    CASE expr.k = "Binary" -> CalledIn(expr.left) \cup CalledIn(expr.right)
      [] expr.k \in {"Unary", "Unit", "Group"} -> CalledIn(expr.expr)
      [] expr.k = "FnCall" ->
             {expr.id} \cup UNION {CalledIn(expr.expressions[j]) :
                                      j \in 1..Len(expr.expressions)}
      [] OTHER -> {}

\* The functions of the table T that the functions of S call, directly
\* or through at most n other functions.
RECURSIVE Reaches(_, _, _)
Reaches(S, T, n) ==
    LET step == UNION {CalledIn(T[FnKey(f)].fn_body) :
                          f \in {g \in S : FnKey(g) \in DOMAIN T}}
    IN  IF n = 0 THEN step ELSE step \cup Reaches(step, T, n - 1)

\* No user function of the table calls itself.
NoRecursiveFn(T) ==
    \A key \in DOMAIN T :
        T[key].k = "FnDecl"
            => T[key].id \notin Reaches({T[key].id}, T, Cardinality(DOMAIN T))

\* C9: with a store in which no user function calls itself, directly or
\* through other functions, interpret returns: the evaluation does not
\* run out of stack.
C9_Terminates == NoRecursiveFn(symbol_table) => pc # "aborted"

====
